---- MODULE Spec2Model ----
(***************************************************************************)
(* Synapse AI Search: the search-and-answer and the score operations of    *)
(* src/api/index.py (the synchronous serverless handler, variant "api")    *)
(* and of src/main.py (the FastAPI application, variant "main").           *)
(*                                                                         *)
(* Text is modelled as a sequence of lexemes.  Each lexeme stands for a    *)
(* fixed run of characters:                                                *)
(*   "F"     the fence delimiter, three backticks                          *)
(*   "json"  the four characters j s o n                                   *)
(*   "ws"    one whitespace character                                      *)
(*   "nl"    the newline character used as a separator by web_search       *)
(*   "{" "}" "," "q"   the JSON punctuation (q is the double quote)        *)
(*   "kT" "kB"         the member names "total_score": and "feedback":     *)
(*   "n50" "n999" "[]" "true" "false" "null"   JSON literals               *)
(*   "A199"  a run of 199 prose characters                                 *)
(*   anything else     an opaque run of prose characters                   *)
(***************************************************************************)
EXTENDS Integers, Sequences, FiniteSets, TLC

VARIABLES variant, envKey, req, wdata, wres

vars == <<variant, envKey, req, wdata, wres>>

\* ------------------------------------------------------------------ bounds
\* Longest RelatedTopics list of a provider response.
MaxTopics == 6
\* Longest feedback string inside a model-produced score object.
MaxFb == 2

\* ------------------------------------------------------- program constants
\* httpx.get(..., timeout=10)
SEARCH_TIMEOUT == 10
\* httpx.post(..., timeout=30)
GEMINI_TIMEOUT == 30
\* for topic in data.get("RelatedTopics", [])[:5]
TOPIC_LIMIT == 5
\* raw[:200] in the fallback feedback of src/main.py
RAW_LIMIT == 200
\* clean[4:] after clean.startswith("json")
TAG_LEN == 4

\* --------------------------------------------------------------- strings
WS == "ws"
FENCE == "F"
TAG == "json"

IsSpace(t) == t \in {WS, "nl"}

\* str.strip(): whitespace removed at both ends.
RECURSIVE LStrip(_)
LStrip(s) == IF s # <<>> /\ IsSpace(Head(s)) THEN LStrip(Tail(s)) ELSE s

RECURSIVE RStrip(_)
RStrip(s) ==
    IF s # <<>> /\ IsSpace(s[Len(s)])
    THEN RStrip(SubSeq(s, 1, Len(s) - 1))
    ELSE s

Strip(s) == RStrip(LStrip(s))

\* "```" in s
HasFence(s) == \E i \in 1..Len(s) : s[i] = FENCE

\* s.startswith("```")
StartsWithFence(s) == s # <<>> /\ Head(s) = FENCE

\* Position of the first fence at or after position i, Len(s)+1 when none.
RECURSIVE FindFence(_, _)
FindFence(s, i) ==
    IF i > Len(s) THEN Len(s) + 1
    ELSE IF s[i] = FENCE THEN i ELSE FindFence(s, i + 1)

\* s.split("```")[1]: the text between the first fence and the second one
\* (or the end of the text).  Only used when s holds a fence.
SplitFence1(s) ==
    LET a == FindFence(s, 1)
        b == FindFence(s, a + 1)
    IN  SubSeq(s, a + 1, b - 1)

\* Number of characters a lexeme stands for.
CharLen(t) ==
    CASE t = FENCE -> 3
      [] t = TAG -> TAG_LEN
      [] t = "kT" -> 14
      [] t = "kB" -> 11
      [] t \in {"n50", "[]"} -> 2
      [] t \in {"true", "null", "n999"} -> 4
      [] t = "false" -> 5
      [] t = "A199" -> 199
      [] OTHER -> 1

\* s[:n], counted in characters.  A lexeme the cut falls inside is kept as
\* the partial lexeme "~".
RECURSIVE TakeChars(_, _)
TakeChars(s, n) ==
    IF s = <<>> \/ n <= 0 THEN <<>>
    ELSE IF CharLen(Head(s)) <= n
         THEN <<Head(s)>> \o TakeChars(Tail(s), n - CharLen(Head(s)))
         ELSE <<"~">>

\* "\n".join(parts)
RECURSIVE Join(_)
Join(parts) ==
    IF parts = <<>> THEN <<>>
    ELSE IF Len(parts) = 1 THEN parts[1]
    ELSE parts[1] \o <<"nl">> \o Join(Tail(parts))

\* t in s, for texts
IsSubstring(t, s) ==
    \E i \in 0..(Len(s) - Len(t)) : SubSeq(s, i + 1, i + Len(t)) = t

\* ------------------------------------------------------------------ JSON
\* Decoded JSON values.  An object is [t |-> "obj", m |-> f], f a function
\* from member names to scalar values.
JNum(n) == [t |-> "num", n |-> n]
JStr(s) == [t |-> "str", s |-> s]
JList == [t |-> "list"]
JTrue == [t |-> "true"]
JFalse == [t |-> "false"]
JNull == [t |-> "null"]
JObj(f) == [t |-> "obj", m |-> f]
EmptyMap == [k \in {} |-> JNull]

\* Outcome of a decoding: a value, or the ValueError json.loads raises.
Decoded(v) == [ok |-> TRUE, val |-> v]
DecodeError == [ok |-> FALSE, val |-> JNull]

\* Position of the next double quote at or after i, 0 when none.
RECURSIVE FindQuote(_, _)
FindQuote(s, i) ==
    IF i > Len(s) THEN 0
    ELSE IF s[i] = "q" THEN i ELSE FindQuote(s, i + 1)

\* The scanner of json.loads: whitespace between items is skipped, a string
\* runs from a double quote to the next one.  <<"bad">> marks an
\* unterminated string.
RECURSIVE Lex(_)
Lex(s) ==
    IF s = <<>> THEN <<>>
    ELSE IF IsSpace(Head(s)) THEN Lex(Tail(s))
    ELSE IF Head(s) = "q"
         THEN LET j == FindQuote(s, 2)
              IN  IF j = 0 THEN <<[k |-> "bad"]>>
                  ELSE <<[k |-> "str", s |-> SubSeq(s, 2, j - 1)]>>
                       \o Lex(SubSeq(s, j + 1, Len(s)))
    ELSE <<[k |-> "tok", t |-> Head(s)]>> \o Lex(Tail(s))

IsTok(item, t) == item.k = "tok" /\ item.t = t

IsScalar(item) ==
    \/ item.k = "str"
    \/ item.k = "tok" /\ item.t \in {"n50", "n999", "[]", "true", "false", "null"}

ScalarOf(item) ==
    IF item.k = "str" THEN JStr(item.s)
    ELSE CASE item.t = "n50" -> JNum(50)
           [] item.t = "n999" -> JNum(999)
           [] item.t = "[]" -> JList
           [] item.t = "true" -> JTrue
           [] item.t = "false" -> JFalse
           [] OTHER -> JNull

IsKey(item) == item.k = "tok" /\ item.t \in {"kT", "kB"}

KeyOf(item) == IF item.t = "kT" THEN "total_score" ELSE "feedback"

\* The members of an object, name value {, name value}; a repeated name
\* keeps its last value.
RECURSIVE ParseMembers(_, _)
ParseMembers(it, acc) ==
    IF Len(it) < 2 \/ ~IsKey(it[1]) \/ ~IsScalar(it[2]) THEN DecodeError
    ELSE LET acc2 == (KeyOf(it[1]) :> ScalarOf(it[2])) @@ acc
         IN  IF Len(it) = 2 THEN Decoded(JObj(acc2))
             ELSE IF Len(it) > 3 /\ IsTok(it[3], ",")
                  THEN ParseMembers(SubSeq(it, 4, Len(it)), acc2)
                  ELSE DecodeError

ParseItems(it) ==
    IF it = <<>> THEN DecodeError
    ELSE IF Len(it) = 1
         THEN IF IsScalar(it[1]) THEN Decoded(ScalarOf(it[1])) ELSE DecodeError
    ELSE IF IsTok(it[1], "{") /\ IsTok(it[Len(it)], "}")
         THEN IF Len(it) = 2 THEN Decoded(JObj(EmptyMap))
              ELSE ParseMembers(SubSeq(it, 2, Len(it) - 1), EmptyMap)
    ELSE DecodeError

\* json.loads(s)
json_loads(s) == ParseItems(Lex(s))

\* json.dumps of a scalar and of an object (separators ", " and ": ").
DumpScalar(v) ==
    CASE v.t = "num" -> IF v.n = 50 THEN <<"n50">> ELSE <<"n999">>
      [] v.t = "str" -> <<"q">> \o v.s \o <<"q">>
      [] v.t = "list" -> <<"[]">>
      [] v.t = "true" -> <<"true">>
      [] v.t = "false" -> <<"false">>
      [] OTHER -> <<"null">>

DumpMember(f, k) ==
    <<IF k = "total_score" THEN "kT" ELSE "kB", WS>> \o DumpScalar(f[k])

json_dumps(v) ==
    IF v.t # "obj" THEN DumpScalar(v)
    ELSE LET f == v.m
             hasT == "total_score" \in DOMAIN f
             hasB == "feedback" \in DOMAIN f
         IN  <<"{">>
             \o (IF hasT THEN DumpMember(f, "total_score") ELSE <<>>)
             \o (IF hasT /\ hasB THEN <<",", WS>> ELSE <<>>)
             \o (IF hasB THEN DumpMember(f, "feedback") ELSE <<>>)
             \o <<"}">>

\* ---------------------------------------------------------- collaborators
\* What a collaborator hands back to its caller: a string, a value that is
\* not a string, or an exception that leaves the function.
StrRes(s) == [k |-> "str", s |-> s]
NonStrRes == [k |-> "nonstr", s |-> <<>>]
RaisedRes == [k |-> "raised", s |-> <<>>]

NO_RESULTS == <<"No web results found.">>

\* A response of the search provider to the GET.
\*   kind "transport": the GET raised (connection error), kind "timeout": the
\*   timeout expired, kind "not_json": r.json() raised, kind "json": a JSON
\*   body, of shape "object" or not.  emsg is str(e).
\* In an object, a member is [has |-> BOOLEAN, v |-> value]; a related topic
\* is [isdict, hasText, Text].
SearchFailure(kind, emsg) ==
    [kind |-> kind, shape |-> "none", emsg |-> emsg,
     AbstractText |-> [has |-> FALSE, v |-> <<>>],
     RelatedTopics |-> [has |-> FALSE, v |-> <<>>]]

SearchBody(shape, abstract, topics) ==
    [kind |-> "json", shape |-> shape, emsg |-> <<>>,
     AbstractText |-> abstract, RelatedTopics |-> topics]

\* data.get(name), falsy when the member is missing or empty
GetText(member) == IF member.has THEN member.v ELSE <<>>

\* isinstance(topic, dict) and topic.get("Text")
TopicHasText(topic) == topic.isdict /\ topic.hasText /\ topic.Text # <<>>

\* The loop over data.get("RelatedTopics", [])[:5]
RECURSIVE TopicSnippets(_)
TopicSnippets(topics) ==
    IF topics = <<>> THEN <<>>
    ELSE (IF TopicHasText(Head(topics)) THEN <<Head(topics).Text>> ELSE <<>>)
         \o TopicSnippets(Tail(topics))

\* The cut taken after the filter instead of before it.
FirstTopicsAfterFilter(topics) ==
    LET kept == SelectSeq(topics, TopicHasText)
    IN  SubSeq(kept, 1, IF Len(kept) < TOPIC_LIMIT THEN Len(kept) ELSE TOPIC_LIMIT)

\* data.get("RelatedTopics", [])[:5]
FirstTopics(topics) ==
    SubSeq(topics, 1, IF Len(topics) < TOPIC_LIMIT THEN Len(topics) ELSE TOPIC_LIMIT)

Snippets(data) ==
    (IF GetText(data.AbstractText) # <<>> THEN <<data.AbstractText.v>> ELSE <<>>)
    \o TopicSnippets(FirstTopics(GetText(data.RelatedTopics)))

SearchError(emsg) == <<"Web search error: ">> \o emsg

\* web_search, from the provider's response on: the same text in both files.
web_search(resp) ==
    IF resp.kind # "json" THEN SearchError(resp.emsg)
    ELSE IF resp.shape # "object" THEN SearchError(<<"AttributeError">>)
    ELSE IF Snippets(resp) # <<>> THEN Join(Snippets(resp)) ELSE NO_RESULTS

\* GEMINI_API_KEY as the module reads it from the environment.
PLACEHOLDER_KEY == <<"YOUR_GEMINI_API_KEY_HERE">>

GEMINI_API_KEY(v, env) ==
    IF env THEN <<"key">> ELSE IF v = "api" THEN <<>> ELSE PLACEHOLDER_KEY

KEY_NOT_SET == <<"GEMINI_API_KEY is not set. To fix: ...">>
NO_RESPONSE == <<"No response from Gemini.">>

\* if not GEMINI_API_KEY: return <instructions>   (src/api/index.py only)
KeyMissing(v, env) == v = "api" /\ GEMINI_API_KEY(v, env) = <<>>

\* A response of the model provider to the POST.
\*   kind as for the search; shape of the JSON body: "object", "list",
\*   "number", "null"; hasCand/cands: the "candidates" member and how far
\*   candidates[0].content.parts[0].text can be followed; hasErr/err: the
\*   "error" member, a mapping with a message, one without, or no mapping.
ModelFailure(kind, emsg) ==
    [kind |-> kind, shape |-> "none", hasCand |-> FALSE, cands |-> "none",
     text |-> <<>>, hasErr |-> FALSE, err |-> "none", emsg |-> emsg]

ModelBody(shape, hasCand, cands, text, hasErr, err, emsg) ==
    [kind |-> "json", shape |-> shape, hasCand |-> hasCand, cands |-> cands,
     text |-> text, hasErr |-> hasErr, err |-> err, emsg |-> emsg]

RequestFailed(emsg) == StrRes(<<"Request failed: ">> \o emsg)

UnknownMessage(v) == IF v = "api" THEN <<"Unknown">> ELSE <<"Unknown error">>

\* data["candidates"][0]["content"]["parts"][0]["text"]
FirstCandidateText(resp) ==
    CASE resp.cands = "text" -> StrRes(resp.text)
      [] resp.cands = "text_nonstr" -> NonStrRes
      [] resp.cands = "empty" -> RequestFailed(<<"IndexError">>)
      [] resp.cands = "not_list" -> RequestFailed(<<"TypeError">>)
      [] OTHER -> RequestFailed(<<"KeyError">>)

\* The error member read outside the try block.
ErrorTextUncaught(v, resp) ==
    CASE resp.err = "msg" -> StrRes(<<"Gemini API Error: ">> \o resp.emsg)
      [] resp.err = "nomsg" -> StrRes(<<"Gemini API Error: ">> \o UnknownMessage(v))
      [] OTHER -> RaisedRes

\* data['error'].get('message', 'Unknown')
ErrorText(v, resp) ==
    CASE resp.err = "msg" -> StrRes(<<"Gemini API Error: ">> \o resp.emsg)
      [] resp.err = "nomsg" -> StrRes(<<"Gemini API Error: ">> \o UnknownMessage(v))
      [] OTHER -> RequestFailed(<<"AttributeError">>)

\* The error member looked at before the candidates.
gemini_response_error_first(v, resp) ==
    IF resp.kind # "json" THEN RequestFailed(resp.emsg)
    ELSE IF resp.shape \in {"number", "null"} THEN RequestFailed(<<"TypeError">>)
    ELSE IF resp.shape = "list" THEN StrRes(NO_RESPONSE)
    ELSE IF resp.hasErr THEN ErrorText(v, resp)
    ELSE IF resp.hasCand THEN FirstCandidateText(resp)
    ELSE StrRes(NO_RESPONSE)

\* call_gemini, from the provider's response on (the try block).
gemini_response(v, resp) ==
    IF resp.kind # "json" THEN RequestFailed(resp.emsg)
    ELSE IF resp.shape \in {"number", "null"} THEN RequestFailed(<<"TypeError">>)
    ELSE IF resp.shape = "list" THEN StrRes(NO_RESPONSE)
    ELSE IF resp.hasCand THEN FirstCandidateText(resp)
    ELSE IF resp.hasErr THEN ErrorText(v, resp)
    ELSE StrRes(NO_RESPONSE)

\* -------------------------------------------------------------- requests
\* A member of a request body: missing, a string, or a value of another
\* type (the number 5, which str() renders as "5").
FAbsent == [t |-> "absent", s |-> <<>>]
FStr(s) == [t |-> "str", s |-> s]
FNum == [t |-> "num", s |-> <<"5">>]

\* A request body: kind "invalid" (no JSON), "list" (JSON, no object) or
\* "object" with the three members.
Body(kind, q, a, e) ==
    [kind |-> kind, query |-> q, ai_answer |-> a, expected_answer |-> e]

\* body.get(name, "")
Get(body, name) == IF body[name].t = "absent" THEN FStr(<<>>) ELSE body[name]

\* bool(x) of a member value
Truthy(fv) == fv.t = "num" \/ fv.s # <<>>

NoPayload == [k |-> "none"]
ErrorPayload(msg) == [k |-> "error", msg |-> msg]
AnswerPayload(ans, ctx, q) ==
    [k |-> "answer", ai_answer |-> ans, web_context |-> ctx, query |-> q]
JsonPayload(v) == [k |-> "json", val |-> v]

QUERY_REQUIRED == "Query is required"
MISSING_FIELDS == "Missing required fields: query, ai_answer, expected_answer"
INVALID_JSON == "Invalid JSON body"
UNPROCESSABLE == "validation error"

\* The state of one request.  pc: "idle" (not yet received), "wait_search"
\* (the GET is outstanding), "wait_model" (the POST is outstanding), "done"
\* (a response was sent), "crashed" (an exception left the handler and no
\* response was sent).  sresp and mresp: how the GET and the POST ended
\* (kind "none": not issued, or still outstanding).
IdleReq ==
    [pc |-> "idle", path |-> "none", body |-> Body("none", FAbsent, FAbsent, FAbsent),
     query |-> <<>>, ctx |-> <<>>, prompt |-> <<>>, answer |-> StrRes(<<>>),
     elapsed |-> 0, nGet |-> 0, nPost |-> 0,
     sresp |-> SearchFailure("none", <<>>), mresp |-> ModelFailure("none", <<>>),
     status |-> 0, payload |-> NoPayload]

\* _send_json(data, status) and the return of a FastAPI route
Respond(rec, status, payload) ==
    [rec EXCEPT !.pc = "done", !.elapsed = 0, !.status = status, !.payload = payload]

\* An exception nobody catches: BaseHTTPRequestHandler sends nothing.
Crash(rec) == [rec EXCEPT !.pc = "crashed", !.elapsed = 0]

\* The prompt of handle_search / search: fixed text around ctx and query.
SearchPrompt(ctx, q) ==
    <<"Web context:">> \o ctx \o <<"Question:">> \o q \o <<"Provide an answer.">>

\* The prompt of handle_score / score.
ScorePrompt(q, a, e) ==
    <<"Question:">> \o q \o <<"AI Answer:">> \o a \o <<"Expected:">> \o e
    \o <<"Reply ONLY with JSON">>

\* The fallback record; only its feedback differs between the two files.
Fallback(feedback) ==
    JObj([key \in {"total_score", "factual_accuracy", "completeness", "relevance",
                   "clarity", "verdict", "feedback", "matches_expected"} |->
            CASE key = "total_score" -> JNum(50)
              [] key = "factual_accuracy" -> JNum(13)
              [] key = "completeness" -> JNum(13)
              [] key = "relevance" -> JNum(12)
              [] key = "clarity" -> JNum(12)
              [] key = "verdict" -> JStr(<<"Acceptable">>)
              [] key = "feedback" -> JStr(feedback)
              [] OTHER -> JFalse])

FEEDBACK_API == <<"Score could not be parsed from AI response. Try again.">>
FEEDBACK_MAIN == <<"Could not parse detailed scoring. Raw response: ">>

\* if clean.startswith("json"): clean = clean[4:]
DropTag(clean) == IF clean # <<>> /\ Head(clean) = TAG THEN Tail(clean) ELSE clean

\* The test that sends the reply through the fence splitter:
\* "```" in clean (src/api/index.py), clean.startswith("```") (src/main.py).
FenceTest(v, clean) == IF v = "api" THEN HasFence(clean) ELSE StartsWithFence(clean)

\* The text handed to json.loads.
Extract(v, raw) ==
    LET clean == Strip(raw)
    IN  Strip(IF FenceTest(v, clean) THEN DropTag(SplitFence1(clean)) ELSE clean)

\* The reply quoted in full instead of its first 200 characters.
FallbackForUntruncated(v, raw) ==
    IF v = "api" THEN Fallback(FEEDBACK_API) ELSE Fallback(FEEDBACK_MAIN \o raw)

\* The except branch: the fallback record.
FallbackFor(v, raw) ==
    IF v = "api" THEN Fallback(FEEDBACK_API)
    ELSE Fallback(FEEDBACK_MAIN \o TakeChars(raw, RAW_LIMIT))

\* The try/except of handle_score / score, for a reply that is a string.
score_parse(v, raw) ==
    LET d == json_loads(Extract(v, raw))
    IN  IF d.ok THEN d.val ELSE FallbackFor(v, raw)

\* The end of handle_score / score.  A reply that is no string makes
\* raw.strip() raise inside the try; in src/main.py the handler's raw[:200]
\* then raises again and the framework answers 500.
FinishScore(v, rec, raw) ==
    LET r == [rec EXCEPT !.answer = raw]
    IN  IF raw.k = "str" THEN Respond(r, 200, JsonPayload(score_parse(v, raw.s)))
        ELSE IF v = "api" THEN Respond(r, 200, JsonPayload(Fallback(FEEDBACK_API)))
        ELSE Respond(r, 500, NoPayload)

\* The end of handle_search / search.
FinishSearch(rec, ans) ==
    Respond([rec EXCEPT !.answer = ans], 200, AnswerPayload(ans, rec.ctx, rec.query))

\* Neither handler catches what call_gemini raises.
Finish(v, rec, ans) ==
    IF ans.k = "raised" THEN Crash([rec EXCEPT !.answer = ans])
    ELSE IF rec.path = "search" THEN FinishSearch(rec, ans)
    ELSE FinishScore(v, rec, ans)

\* call_gemini up to the POST: without a key (src/api/index.py) it returns
\* the instructions at once, otherwise the POST is issued.
CallGemini(v, env, rec, prompt) ==
    IF KeyMissing(v, env)
    THEN Finish(v, [rec EXCEPT !.prompt = prompt], StrRes(KEY_NOT_SET))
    ELSE [rec EXCEPT !.pc = "wait_model", !.prompt = prompt, !.elapsed = 0,
                     !.nPost = @ + 1]

\* web_search up to the GET.
CallSearch(rec, q) ==
    [rec EXCEPT !.pc = "wait_search", !.query = q, !.elapsed = 0, !.nGet = @ + 1]

\* handle_search(body) of src/api/index.py up to its first outbound call.
handle_search(rec, body) ==
    IF body.kind # "object" THEN Crash(rec)
    ELSE LET q == Get(body, "query")
         IN  IF q.t # "str" THEN Crash(rec)
             ELSE IF Strip(q.s) = <<>>
                  THEN Respond(rec, 200, ErrorPayload(QUERY_REQUIRED))
                  ELSE CallSearch(rec, Strip(q.s))

\* handle_score(body) of src/api/index.py up to its first outbound call.
handle_score(env, rec, body) ==
    IF body.kind # "object" THEN Crash(rec)
    ELSE LET q == Get(body, "query")
             a == Get(body, "ai_answer")
             e == Get(body, "expected_answer")
         IN  IF ~(Truthy(q) /\ Truthy(a) /\ Truthy(e))
             THEN Respond(rec, 200, ErrorPayload(MISSING_FIELDS))
             ELSE CallGemini("api", env, [rec EXCEPT !.query = q.s],
                             ScorePrompt(q.s, a.s, e.s))

\* do_POST of src/api/index.py, for the two paths.
do_POST(env, rec, path, body) ==
    IF body.kind = "invalid" THEN Respond(rec, 400, ErrorPayload(INVALID_JSON))
    ELSE IF path = "search" THEN handle_search(rec, body)
    ELSE handle_score(env, rec, body)

\* The request models SearchRequest and ScoreRequest of src/main.py: the
\* framework answers 422 unless the body is an object with the required
\* members; a member that is no string is rejected or coerced to a string,
\* depending on the installed pydantic (coerce).
Accepted(path, body, coerce) ==
    /\ body.kind = "object"
    /\ body.query.t # "absent"
    /\ path = "score" =>
          body.ai_answer.t # "absent" /\ body.expected_answer.t # "absent"
    /\ ~coerce =>
          /\ body.query.t = "str"
          /\ path = "score" =>
                body.ai_answer.t = "str" /\ body.expected_answer.t = "str"

\* search(req) of src/main.py up to its first outbound call.
search(rec, body) == CallSearch(rec, body.query.s)

\* score(req) of src/main.py up to its first outbound call.
score(env, rec, body) ==
    CallGemini("main", env, [rec EXCEPT !.query = body.query.s],
               ScorePrompt(body.query.s, body.ai_answer.s, body.expected_answer.s))

\* The two POST routes of src/main.py.
route(env, rec, path, body, coerce) ==
    IF ~Accepted(path, body, coerce) THEN Respond(rec, 422, ErrorPayload(UNPROCESSABLE))
    ELSE IF path = "search" THEN search(rec, body)
    ELSE score(env, rec, body)

\* What follows web_search in handle_search / search.
\* The context kept in a module-level cache that every request reads: the
\* context of whichever request searched first is used.
AfterSearchSharedCtx(v, env, rec, ctx) ==
    LET cached == {req[r2].ctx : r2 \in {r3 \in DOMAIN req : req[r3].ctx # <<>>}}
        used == IF cached = {} THEN ctx ELSE CHOOSE c \in cached : TRUE
    IN  CallGemini(v, env, [rec EXCEPT !.ctx = used], SearchPrompt(used, rec.query))

\* A failed search tried once more before the model is asked.
AfterSearchRetry(v, env, rec, ctx) ==
    IF Head(ctx) = "Web search error: " /\ rec.nGet < 2
    THEN CallSearch([rec EXCEPT !.ctx = ctx], rec.query)
    ELSE CallGemini(v, env, [rec EXCEPT !.ctx = ctx], SearchPrompt(ctx, rec.query))

\* A failed search answered at once instead of handed on.
AfterSearchAbort(v, env, rec, ctx) ==
    IF Head(ctx) = "Web search error: "
    THEN Respond([rec EXCEPT !.ctx = ctx], 200, ErrorPayload("Search failed"))
    ELSE CallGemini(v, env, [rec EXCEPT !.ctx = ctx], SearchPrompt(ctx, rec.query))

AfterSearch(v, env, rec, ctx) ==
    CallGemini(v, env, [rec EXCEPT !.ctx = ctx], SearchPrompt(ctx, rec.query))

\* A POST without a timeout never expires.
TimeoutSearchOnly(pc) == IF pc = "wait_search" THEN SEARCH_TIMEOUT ELSE -1

\* timeout=10 of the GET, timeout=30 of the POST
Timeout(pc) == IF pc = "wait_search" THEN SEARCH_TIMEOUT ELSE GEMINI_TIMEOUT

TIMEOUT_MESSAGE == <<"timed out">>

\* ---------------------------------------------------------------- inputs
\* Member values of request bodies: missing, empty, whitespace only, a
\* padded text, a number.
QueryVals == {FAbsent, FStr(<<>>), FStr(<<WS>>), FStr(<<WS, "Q", WS>>), FNum}
FieldVals == {FAbsent, FStr(<<>>), FStr(<<"t">>), FNum}

SearchBodies ==
    {Body("invalid", FAbsent, FAbsent, FAbsent), Body("list", FAbsent, FAbsent, FAbsent)}
    \cup {Body("object", q, FAbsent, FAbsent) : q \in QueryVals}

ScoreBodies ==
    {Body("invalid", FAbsent, FAbsent, FAbsent), Body("list", FAbsent, FAbsent, FAbsent)}
    \cup {Body("object", q, a, e) : q \in FieldVals, a \in FieldVals, e \in FieldVals}

Bodies(path) == IF path = "search" THEN SearchBodies ELSE ScoreBodies

\* Related topics: no mapping, a mapping without "Text" (a topic group), a
\* mapping with an empty "Text", and two with a text.
TopicKinds ==
    {[isdict |-> FALSE, hasText |-> FALSE, Text |-> <<>>],
     [isdict |-> TRUE, hasText |-> FALSE, Text |-> <<>>],
     [isdict |-> TRUE, hasText |-> TRUE, Text |-> <<>>],
     [isdict |-> TRUE, hasText |-> TRUE, Text |-> <<"Y">>],
     [isdict |-> TRUE, hasText |-> TRUE, Text |-> <<"Z">>]}

TopicY == [isdict |-> TRUE, hasText |-> TRUE, Text |-> <<"Y">>]
TopicZ == [isdict |-> TRUE, hasText |-> TRUE, Text |-> <<"Z">>]
TopicGroup == [isdict |-> TRUE, hasText |-> FALSE, Text |-> <<>>]

AbstractVals ==
    {[has |-> FALSE, v |-> <<>>], [has |-> TRUE, v |-> <<>>], [has |-> TRUE, v |-> <<"X">>]}

TopicLists == UNION {[1..n -> TopicKinds] : n \in 0..MaxTopics}

\* Every provider object with at most MaxTopics related topics.
ProviderObjects ==
    {SearchBody("object", a, [has |-> TRUE, v |-> ts]) :
        a \in AbstractVals, ts \in TopicLists}

\* Ways a GET ends before its timeout.
SearchFailures ==
    {SearchFailure("transport", <<"connection refused">>),
     SearchFailure("not_json", <<"JSONDecodeError">>),
     SearchBody("list", [has |-> FALSE, v |-> <<>>], [has |-> FALSE, v |-> <<>>])}

\* The provider responses of the request machine.
SearchResponses ==
    SearchFailures
    \cup {SearchBody("object", a, ts) :
            a \in AbstractVals,
            ts \in {[has |-> FALSE, v |-> <<>>], [has |-> TRUE, v |-> <<>>],
                    [has |-> TRUE, v |-> <<TopicY>>],
                    [has |-> TRUE, v |-> <<TopicGroup, TopicZ, TopicY>>]}}

\* Feedback strings of a model-produced score object: a letter and the
\* fence delimiter, in every order.
FbStrings == UNION {[1..n -> {"a", FENCE}] : n \in 0..MaxFb}

\* Model-produced JSON objects: a total_score that is missing, in range or
\* out of range; a feedback that is missing or a string.
ObjOf(T, B) ==
    JObj((IF T = 0 THEN EmptyMap ELSE "total_score" :> JNum(T))
         @@ (IF B.has THEN "feedback" :> JStr(B.v) ELSE EmptyMap))

ScoreObjects ==
    {ObjOf(T, B) : T \in {0, 50, 999},
                   B \in {[has |-> FALSE, v |-> <<>>]}
                         \cup {[has |-> TRUE, v |-> fb] : fb \in FbStrings}}

\* A reply wrapped in a fence tagged "json".
Fenced(d) == <<FENCE, TAG, "nl">> \o d \o <<"nl", FENCE>>

Padded(d) == <<WS, "nl">> \o d \o <<"nl">>

ProseReplies == {<<"a">>, <<"a", WS, "a">>, <<"A199", "a", "a">>, <<TAG, "a">>, <<>>}

ScalarReplies == {<<"n50">>, <<"q", "a", "q">>, <<"[]">>, <<"true">>, <<"null">>}

\* The texts a model reply may be.
ReplyTexts ==
    ProseReplies
    \cup ScalarReplies
    \cup {Fenced(d) : d \in ScalarReplies \cup ProseReplies}
    \cup UNION {{json_dumps(J), Padded(json_dumps(J)), Fenced(json_dumps(J)),
                 Padded(Fenced(json_dumps(J))),
                 <<FENCE>> \o json_dumps(J) \o <<FENCE>>,
                 <<"a", FENCE, TAG>> \o json_dumps(J) \o <<FENCE, "a">>} :
                J \in ScoreObjects}

CandKinds == {"empty", "not_list", "no_content", "no_parts", "empty_parts", "no_text"}

\* Ways a POST ends before its timeout.
ModelResponses ==
    {ModelFailure("transport", <<"connection refused">>),
     ModelFailure("not_json", <<"JSONDecodeError">>)}
    \cup {ModelBody(sh, FALSE, "none", <<>>, FALSE, "none", <<>>) :
            sh \in {"list", "number", "null", "object"}}
    \cup {ModelBody("object", TRUE, c, <<>>, he, IF he THEN "msg" ELSE "none",
                    IF he THEN <<"quota">> ELSE <<>>) :
            c \in CandKinds \cup {"text_nonstr"}, he \in BOOLEAN}
    \cup {ModelBody("object", FALSE, "none", <<>>, TRUE, e,
                    IF e = "msg" THEN <<"quota">> ELSE <<>>) :
            e \in {"msg", "nomsg", "not_mapping"}}
    \cup {ModelBody("object", TRUE, "text", t, FALSE, "none", <<>>) : t \in ReplyTexts}
    \cup {ModelBody("object", TRUE, "text", <<"a">>, TRUE, "msg", <<"quota">>)}

\* ---------------------------------------------------------------- actions
\* A POST arrives and runs up to its first outbound call (or to its end).
Receive(r) ==
    /\ req[r].pc = "idle"
    /\ \E path \in {"search", "score"} : \E body \in Bodies(path) :
       \E coerce \in BOOLEAN :
          LET rec == [req[r] EXCEPT !.path = path, !.body = body]
          IN  req' = [req EXCEPT ![r] =
                        IF variant = "api" THEN do_POST(envKey, rec, path, body)
                        ELSE route(envKey, rec, path, body, coerce)]
    /\ UNCHANGED <<variant, envKey, wdata, wres>>

\* Time passes while an outbound call is outstanding.
Tick(r) ==
    /\ req[r].pc \in {"wait_search", "wait_model"}
    /\ req[r].elapsed < Timeout(req[r].pc)
    /\ req' = [req EXCEPT ![r].elapsed = @ + 1]
    /\ UNCHANGED <<variant, envKey, wdata, wres>>

\* The GET ends before its timeout; web_search returns and the handler
\* goes on to call_gemini.
SearchReply(r) ==
    /\ req[r].pc = "wait_search"
    /\ req[r].elapsed # Timeout("wait_search")
    /\ \E resp \in SearchResponses :
          req' = [req EXCEPT ![r] =
                    AfterSearch(variant, envKey, [req[r] EXCEPT !.sresp = resp],
                                web_search(resp))]
    /\ UNCHANGED <<variant, envKey, wdata, wres>>

\* The GET's timeout expires: httpx raises, web_search catches.
SearchTimeout(r) ==
    /\ req[r].pc = "wait_search"
    /\ req[r].elapsed = Timeout("wait_search")
    /\ LET resp == SearchFailure("timeout", TIMEOUT_MESSAGE)
       IN  req' = [req EXCEPT ![r] =
                     AfterSearch(variant, envKey, [req[r] EXCEPT !.sresp = resp],
                                 web_search(resp))]
    /\ UNCHANGED <<variant, envKey, wdata, wres>>

\* The POST ends before its timeout; call_gemini returns and the handler
\* runs to its end.
ModelReply(r) ==
    /\ req[r].pc = "wait_model"
    /\ req[r].elapsed # Timeout("wait_model")
    /\ \E resp \in ModelResponses :
          req' = [req EXCEPT ![r] =
                    Finish(variant, [req[r] EXCEPT !.mresp = resp],
                           gemini_response(variant, resp))]
    /\ UNCHANGED <<variant, envKey, wdata, wres>>

\* The POST's timeout expires: httpx raises, call_gemini catches.
ModelTimeout(r) ==
    /\ req[r].pc = "wait_model"
    /\ req[r].elapsed = Timeout("wait_model")
    /\ LET resp == ModelFailure("timeout", TIMEOUT_MESSAGE)
       IN  req' = [req EXCEPT ![r] =
                     Finish(variant, [req[r] EXCEPT !.mresp = resp],
                            gemini_response(variant, resp))]
    /\ UNCHANGED <<variant, envKey, wdata, wres>>

\* The requests in flight.
Reqs == {1}

Init ==
    /\ variant \in {"api", "main"}
    /\ envKey \in BOOLEAN
    /\ req = [r \in Reqs |-> IdleReq]
    /\ wdata = SearchFailure("none", <<>>)
    /\ wres = <<>>

Next ==
    \E r \in Reqs :
        \/ Receive(r)
        \/ Tick(r)
        \/ SearchReply(r)
        \/ SearchTimeout(r)
        \/ ModelReply(r)
        \/ ModelTimeout(r)

Spec == Init /\ [][Next]_vars

\* The scheduler keeps running a handler, the clock keeps running, and an
\* expired timeout fires.
Fairness ==
    \A r \in Reqs :
        /\ WF_vars(Tick(r))
        /\ WF_vars(SearchTimeout(r))
        /\ WF_vars(ModelTimeout(r))

FairSpec == Spec /\ Fairness

\* ------------------------------------------------- concurrent requests
\* Two requests in flight at once, in any interleaving of their steps, on a
\* few bodies and collaborator responses.
ConcReqs == {1, 2}

ConcBodies(path) ==
    IF path = "search"
    THEN {Body("object", q, FAbsent, FAbsent) : q \in {FStr(<<>>), FStr(<<WS, "Q", WS>>)}}
    ELSE {Body("object", FStr(<<"t">>), a, FStr(<<"t">>)) : a \in {FStr(<<>>), FStr(<<"t">>)}}

ConcSearchResponses ==
    {SearchFailure("transport", <<"connection refused">>),
     SearchBody("object", [has |-> TRUE, v |-> <<"X">>], [has |-> TRUE, v |-> <<TopicY>>])}

ConcModelResponses ==
    {ModelFailure("transport", <<"connection refused">>),
     ModelBody("object", TRUE, "text", <<"a">>, FALSE, "none", <<>>),
     ModelBody("object", TRUE, "text", <<"{", "kT", WS, "n50", "}">>, FALSE, "none", <<>>)}

ConcReceive(r) ==
    /\ req[r].pc = "idle"
    /\ \E path \in {"search", "score"} : \E body \in ConcBodies(path) :
          LET rec == [req[r] EXCEPT !.path = path, !.body = body]
          IN  req' = [req EXCEPT ![r] =
                        IF variant = "api" THEN do_POST(envKey, rec, path, body)
                        ELSE route(envKey, rec, path, body, TRUE)]
    /\ UNCHANGED <<variant, envKey, wdata, wres>>

ConcSearchReply(r) ==
    /\ req[r].pc = "wait_search"
    /\ req[r].elapsed # Timeout("wait_search")
    /\ \E resp \in ConcSearchResponses :
          req' = [req EXCEPT ![r] =
                    AfterSearch(variant, envKey, [req[r] EXCEPT !.sresp = resp],
                                web_search(resp))]
    /\ UNCHANGED <<variant, envKey, wdata, wres>>

ConcModelReply(r) ==
    /\ req[r].pc = "wait_model"
    /\ req[r].elapsed # Timeout("wait_model")
    /\ \E resp \in ConcModelResponses :
          req' = [req EXCEPT ![r] =
                    Finish(variant, [req[r] EXCEPT !.mresp = resp],
                           gemini_response(variant, resp))]
    /\ UNCHANGED <<variant, envKey, wdata, wres>>

ConcInit ==
    /\ variant \in {"api", "main"}
    /\ envKey \in BOOLEAN
    /\ req = [r \in ConcReqs |-> IdleReq]
    /\ wdata = SearchFailure("none", <<>>)
    /\ wres = <<>>

ConcNext ==
    \E r \in ConcReqs :
        \/ ConcReceive(r)
        \/ Tick(r)
        \/ ConcSearchReply(r)
        \/ SearchTimeout(r)
        \/ ConcModelReply(r)
        \/ ModelTimeout(r)

SpecConc == ConcInit /\ [][ConcNext]_vars

\* ------------------------------------------------- web_search on its own
\* Every provider object is handed to web_search once (its text is the
\* same in both files).
WebInit ==
    /\ variant = "api"
    /\ envKey = TRUE
    /\ req = [r \in Reqs |-> IdleReq]
    /\ wdata \in ProviderObjects
    /\ wres = <<>>

WebCall ==
    /\ wres = <<>>
    /\ wres' = web_search(wdata)
    /\ UNCHANGED <<variant, envKey, req, wdata>>

WebNext == WebCall

SpecWeb == WebInit /\ [][WebNext]_vars
\* ----------------------------------------------------------------- claims
Received(rec) == rec.pc # "idle"

IsSearch(rec) == Received(rec) /\ rec.path = "search"

IsScore(rec) == Received(rec) /\ rec.path = "score"

\* The query member is a string that is empty or only whitespace.
BlankQuery(rec) ==
    rec.body.kind = "object" /\ rec.body.query.t = "str" /\ Strip(rec.body.query.s) = <<>>

\* One of the three members of a score body is missing or the empty string.
EmptyMember(rec) ==
    /\ rec.body.kind = "object"
    /\ \E name \in {"query", "ai_answer", "expected_answer"} :
          rec.body[name].t = "absent" \/ rec.body[name] = FStr(<<>>)

\* C1: a search request whose query is empty or only whitespace is answered
\* with the validation error object, and neither the GET nor the POST is
\* issued.
C1_BlankQueryRejected ==
    \A r \in DOMAIN req :
        IsSearch(req[r]) /\ BlankQuery(req[r]) =>
            /\ req[r].pc = "done"
            /\ req[r].payload = ErrorPayload(QUERY_REQUIRED)
            /\ req[r].nGet = 0
            /\ req[r].nPost = 0

\* C2: a score request with a missing or empty member is answered with the
\* validation error object and the model collaborator is not called.
C2_EmptyMemberRejected ==
    \A r \in DOMAIN req :
        IsScore(req[r]) /\ EmptyMember(req[r]) =>
            /\ req[r].pc = "done"
            /\ req[r].payload = ErrorPayload(MISSING_FIELDS)
            /\ req[r].prompt = <<>>
            /\ req[r].nPost = 0

\* C3: without an API key in the configuration no POST is issued, and every
\* call of call_gemini returns the configuration instructions.
C3_NoKeyNoPost ==
    ~envKey =>
        \A r \in DOMAIN req :
            /\ req[r].nPost = 0
            /\ req[r].prompt # <<>> => req[r].answer = StrRes(KEY_NOT_SET)

\* The outcomes of the POST that C4 lists.
ListedFailure(resp) ==
    \/ resp.kind \in {"transport", "timeout", "not_json"}
    \/ resp.kind = "json" /\ resp.hasCand /\ resp.cands \in CandKinds
    \/ resp.kind = "json" /\ ~resp.hasCand /\ resp.hasErr /\ resp.err = "not_mapping"
    \/ resp.kind = "json" /\ ~resp.hasCand /\ ~resp.hasErr

\* C4: call_gemini never raises: whatever the POST brought, the handler did
\* not crash in it, and for every listed failure the value handed to the
\* caller is a string (the only value that is no string is a first
\* candidate's text that the provider sent as something else).
C4_NeverRaises ==
    \A r \in DOMAIN req :
        req[r].mresp.kind # "none" =>
            /\ req[r].pc = "done"
            /\ req[r].answer.k # "raised"
            /\ ListedFailure(req[r].mresp) => req[r].answer.k = "str"
            /\ req[r].answer.k = "nonstr" => req[r].mresp.cands = "text_nonstr"

C4_Witness ==
    \E r \in DOMAIN req :
        /\ req[r].pc = "done"
        /\ req[r].mresp.kind = "json"
        /\ ~req[r].mresp.hasCand
        /\ req[r].mresp.err = "not_mapping"
        /\ req[r].answer = RequestFailed(<<"AttributeError">>)

\* The reply of the model as the score operation sees it is plain prose:
\* a string without a fence that json.loads rejects.
ProseReply(rec) ==
    /\ IsScore(rec)
    /\ rec.pc = "done"
    /\ rec.mresp.kind = "json"
    /\ rec.mresp.cands = "text"
    /\ rec.answer.k = "str"
    /\ ~HasFence(rec.answer.s)
    /\ ~json_loads(Strip(rec.answer.s)).ok

ConstantFeedback == IF variant = "api" THEN FEEDBACK_API ELSE FEEDBACK_MAIN

FixedMembers(f) ==
    /\ DOMAIN f = {"total_score", "factual_accuracy", "completeness", "relevance",
                   "clarity", "verdict", "feedback", "matches_expected"}
    /\ f["total_score"] = JNum(50)
    /\ f["factual_accuracy"] = JNum(13)
    /\ f["completeness"] = JNum(13)
    /\ f["relevance"] = JNum(12)
    /\ f["clarity"] = JNum(12)
    /\ f["verdict"] = JStr(<<"Acceptable">>)
    /\ f["matches_expected"] = JFalse

\* The number of characters of a text.
RECURSIVE CharCount(_)
CharCount(s) == IF s = <<>> THEN 0 ELSE CharLen(Head(s)) + CharCount(Tail(s))

SerialisationOf(J, raw) ==
    LET d == json_dumps(J)
    IN  raw \in {d, Padded(d), Fenced(d), Padded(Fenced(d))}

\* C6: a reply that is the serialisation of a JSON object J, bare or fenced,
\* makes the score operation return J unchanged, and the serialisation of
\* what it returned is parsed to the same record again.
C6_ObjectUnchanged ==
    \A r \in DOMAIN req : \A J \in ScoreObjects :
        /\ IsScore(req[r])
        /\ req[r].pc = "done"
        /\ req[r].mresp.cands = "text"
        /\ req[r].answer.k = "str"
        /\ SerialisationOf(J, req[r].answer.s)
        => /\ req[r].payload = JsonPayload(J)
           /\ score_parse(variant, json_dumps(req[r].payload.val)) = J

\* text.split("\n")
RECURSIVE SplitNl(_)
SplitNl(s) ==
    LET cut == CHOOSE i \in 1..(Len(s) + 1) :
                  /\ i = Len(s) + 1 \/ s[i] = "nl"
                  /\ \A j \in 1..(i - 1) : s[j] # "nl"
    IN  IF cut > Len(s) THEN <<s>>
        ELSE <<SubSeq(s, 1, cut - 1)>> \o SplitNl(SubSeq(s, cut + 1, Len(s)))

\* C7: for a provider object, web_search returns the non-empty AbstractText
\* followed by the Text of those of the first 5 related topics that are
\* mappings with a non-empty Text, in the provider's order, one per line;
\* it returns "No web results found." exactly when there is none.
C7_WebContext ==
    wres # <<>> =>
        LET abs == IF wdata.AbstractText.has THEN wdata.AbstractText.v ELSE <<>>
            topics == wdata.RelatedTopics.v
            qual == {i \in 1..Len(topics) :
                        /\ i <= 5
                        /\ topics[i].isdict
                        /\ topics[i].hasText
                        /\ topics[i].Text # <<>>}
            nabs == IF abs # <<>> THEN 1 ELSE 0
            parts == SplitNl(wres)
        IN  IF nabs = 0 /\ qual = {} THEN wres = NO_RESULTS
            ELSE /\ wres # NO_RESULTS
                 /\ Len(parts) = nabs + Cardinality(qual)
                 /\ nabs = 1 => parts[1] = abs
                 /\ \A i \in qual :
                       parts[nabs + Cardinality({j \in qual : j <= i})] = topics[i].Text

C7_Witness ==
    /\ wdata.AbstractText = [has |-> TRUE, v |-> <<"X">>]
    /\ wdata.RelatedTopics.v = <<TopicY, TopicGroup, TopicZ, TopicY, TopicZ, TopicY>>
    /\ wres = <<"X", "nl", "Y", "nl", "Z", "nl", "Y", "nl", "Z">>

\* The GET failed: a transport error, a timeout, or a body web_search cannot
\* read.
SearchFailed(resp) ==
    \/ resp.kind \in {"transport", "timeout", "not_json"}
    \/ resp.kind = "json" /\ resp.shape # "object"

\* C8: a failed web search does not abort the search request: web_search
\* returns the diagnostic string with the error message in it, call_gemini
\* is called with a prompt that holds that string, and the request ends
\* with status 200 and an answer result whose web_context is the string.
C8_SearchFailureDegrades ==
    \A r \in DOMAIN req :
        IsSearch(req[r]) /\ SearchFailed(req[r].sresp) =>
            /\ Len(req[r].ctx) >= 1
            /\ Head(req[r].ctx) = "Web search error: "
            /\ req[r].sresp.kind # "json" => Tail(req[r].ctx) = req[r].sresp.emsg
            /\ req[r].prompt # <<>>
            /\ IsSubstring(req[r].ctx, req[r].prompt)
            /\ req[r].pc \in {"wait_model", "done"}
            /\ req[r].pc = "done" =>
                  /\ req[r].status = 200
                  /\ req[r].payload.k = "answer"
                  /\ req[r].payload.ai_answer = req[r].answer
                  /\ req[r].payload.web_context = req[r].ctx
                  /\ req[r].payload.query = req[r].query

C8_Witness ==
    \E r \in DOMAIN req :
        /\ IsSearch(req[r])
        /\ req[r].pc = "done"
        /\ req[r].sresp.kind = "timeout"
        /\ req[r].mresp.cands = "text"
        /\ req[r].payload.k = "answer"
        /\ req[r].payload.web_context = <<"Web search error: ", "timed out">>

\* C9: every POST to the search or the score endpoint is answered with
\* status 200, whatever its body and whatever the upstream calls bring; no
\* request ends in an unhandled exception or with another status.
C9_Always200 ==
    \A r \in DOMAIN req :
        Received(req[r]) =>
            /\ req[r].pc # "crashed"
            /\ req[r].pc = "done" => req[r].status = 200

\* An expired call is turned into the collaborator's error string, a call is
\* never outstanding beyond its timeout (10 for the GET, 30 for the POST),
\* and no call is issued a second time.
TimeoutsHandled(rec) ==
    /\ rec.pc = "wait_search" => rec.elapsed <= 10
    /\ rec.pc = "wait_model" => rec.elapsed <= 30
    /\ rec.sresp.kind = "timeout" =>
          rec.ctx = <<"Web search error: ", "timed out">> /\ rec.pc # "crashed"
    /\ rec.mresp.kind = "timeout" =>
          /\ rec.answer = StrRes(<<"Request failed: ", "timed out">>)
          /\ rec.pc = "done"
    /\ rec.nGet <= 1
    /\ rec.nPost <= 1

\* C10: a request that has issued an outbound call eventually returns a
\* response even if the collaborator never answers: each call is bounded by
\* its timeout, an expired call becomes the collaborator's error string, and
\* the request goes on to its end without issuing the call again.
C10_Terminates ==
    /\ \A r \in Reqs :
          (req[r].pc \in {"wait_search", "wait_model"}) ~> (req[r].pc = "done")
    /\ [](\A r \in Reqs : TimeoutsHandled(req[r]))

C10_Witness ==
    \E r \in DOMAIN req :
        /\ req[r].pc = "done"
        /\ req[r].path = "search"
        /\ req[r].sresp.kind = "timeout"
        /\ req[r].mresp.kind = "timeout"
        /\ req[r].status = 200

\* The POST of the request brought a JSON object.
ObjectBody(rec) == rec.mresp.kind = "json" /\ rec.mresp.shape = "object"

\* C11, as claimed: for a JSON body, a "candidates" member makes call_gemini
\* return the first candidate's text, also beside an "error" member;
\* otherwise an "error" member makes it return the error string with the
\* provider's message in it; otherwise it returns the "No response" string.
C11_PriorityOrder ==
    \A r \in DOMAIN req :
        ObjectBody(req[r]) =>
            IF req[r].mresp.hasCand
            THEN \/ req[r].answer = StrRes(req[r].mresp.text)
                 \/ req[r].mresp.cands = "text_nonstr" /\ req[r].answer.k = "nonstr"
            ELSE IF req[r].mresp.hasErr
            THEN /\ req[r].answer.k = "str"
                 /\ Head(req[r].answer.s) = "Gemini API Error: "
                 /\ req[r].mresp.err = "msg" =>
                       Tail(req[r].answer.s) = req[r].mresp.emsg
            ELSE req[r].answer = StrRes(<<"No response from Gemini.">>)

\* C11, amended: the order is candidates, then error, then neither, and an
\* "error" member beside "candidates" is never looked at.  With
\* "candidates", the result is the first candidate's text when
\* candidates[0].content.parts[0].text exists, and the "Request failed"
\* string when it does not.  Without it, an "error" mapping gives the error
\* string with the provider's message, or with the default text when the
\* mapping has no message, and an "error" that is no mapping gives the
\* "Request failed" string.  With neither, the "No response" string.
C11_PriorityOrderAmended ==
    \A r \in DOMAIN req :
        ObjectBody(req[r]) =>
            LET resp == req[r].mresp
                ans == req[r].answer
            IN  IF resp.hasCand
                THEN CASE resp.cands = "text" -> ans = StrRes(resp.text)
                       [] resp.cands = "text_nonstr" -> ans.k = "nonstr"
                       [] OTHER -> /\ ans.k = "str"
                                   /\ Len(ans.s) = 2
                                   /\ Head(ans.s) = "Request failed: "
                ELSE IF resp.hasErr
                THEN CASE resp.err = "msg" ->
                            ans = StrRes(<<"Gemini API Error: ">> \o resp.emsg)
                       [] resp.err = "nomsg" ->
                            /\ ans.k = "str"
                            /\ Head(ans.s) = "Gemini API Error: "
                            /\ Tail(ans.s) \in {<<"Unknown">>, <<"Unknown error">>}
                       [] OTHER -> /\ ans.k = "str"
                                   /\ Head(ans.s) = "Request failed: "
                ELSE ans = StrRes(<<"No response from Gemini.">>)

C11_Witness ==
    \E r \in DOMAIN req :
        /\ envKey
        /\ req[r].pc = "done"
        /\ ObjectBody(req[r])
        /\ req[r].mresp.hasCand
        /\ req[r].mresp.hasErr
        /\ req[r].mresp.cands = "text"
        /\ req[r].answer = StrRes(<<"a">>)

\* The score operation ran to its end on a reply that is a string.
ScoredReply(rec) == IsScore(rec) /\ rec.pc = "done" /\ rec.prompt # <<>> /\ rec.answer.k = "str"

\* C12: whenever the trimmed reply holds a fence anywhere, the score
\* operation decodes only the text between the first and the second fence,
\* less a leading "json"; what precedes the first fence and what follows
\* the second is ignored.
C12_FenceAnywhere ==
    \A r \in DOMAIN req :
        ScoredReply(req[r]) /\ HasFence(Strip(req[r].answer.s)) =>
            LET seg == SplitFence1(Strip(req[r].answer.s))
                d == json_loads(Strip(IF seg # <<>> /\ Head(seg) = "json"
                                      THEN Tail(seg) ELSE seg))
            IN  /\ req[r].payload.k = "json"
                /\ IF d.ok THEN req[r].payload.val = d.val
                   ELSE /\ req[r].payload.val.t = "obj"
                        /\ FixedMembers(req[r].payload.val.m)

\* C13: a reply that is valid JSON but no JSON object is treated as a
\* decoding failure, so every result of a score request that is no error
\* object is a mapping: the parsed object or the fallback record.
C13_ResultIsMapping ==
    \A r \in DOMAIN req :
        IsScore(req[r]) /\ req[r].pc = "done" /\ req[r].status = 200 =>
            \/ req[r].payload.k = "error"
            \/ /\ req[r].payload.k = "json"
               /\ req[r].payload.val.t = "obj"

\* The calls of one request, in any state: at most one GET and two POSTs,
\* no GET in a score request, the POST of a search request only after the
\* GET has ended, and the prompt built around the context that is returned.
CallsInOrder(rec) ==
    /\ rec.nGet <= 1
    /\ rec.nPost <= 2
    /\ IsScore(rec) => rec.nGet = 0 /\ rec.sresp.kind = "none"
    /\ IsSearch(rec) /\ rec.nPost > 0 =>
          rec.nGet = 1 /\ rec.sresp.kind # "none" /\ rec.pc # "wait_search"
    /\ IsSearch(rec) /\ rec.prompt # <<>> =>
          /\ rec.prompt[1] = "Web context:"
          /\ SubSeq(rec.prompt, 2, Len(rec.ctx) + 1) = rec.ctx
          /\ rec.prompt[Len(rec.ctx) + 2] = "Question:"
    /\ rec.pc = "done" /\ rec.payload.k = "answer" =>
          rec.payload.web_context = rec.ctx

\* A step never takes a call back, and a call that has ended, failed or
\* not, is not issued again.
NoRepeat(r) ==
    /\ req'[r].nGet >= req[r].nGet
    /\ req'[r].nPost >= req[r].nPost
    /\ req[r].sresp.kind # "none" => req'[r].nGet = req[r].nGet
    /\ req[r].mresp.kind # "none" => req'[r].nPost = req[r].nPost

\* C14: along every execution of a request at most one search call and at
\* most two model calls are issued and none is repeated after a failure; in
\* a search request the search call has ended before the model call is
\* issued and the prompt holds exactly the context returned as web_context;
\* a score request issues no search call.
C14_CallDiscipline ==
    /\ [](\A r \in Reqs : CallsInOrder(req[r]))
    /\ [][\A r \in Reqs : NoRepeat(r)]_vars

C14_Witness ==
    \E r \in DOMAIN req :
        /\ IsSearch(req[r])
        /\ req[r].pc = "done"
        /\ req[r].sresp.kind = "transport"
        /\ req[r].mresp.kind = "transport"
        /\ req[r].nGet = 1
        /\ req[r].nPost = 1
        /\ req[r].payload.k = "answer"
        /\ req[r].payload.web_context = <<"Web search error: ", "connection refused">>

\* What call_gemini returned to a request, from the configuration and the
\* response to the request's own POST (none: no POST was issued).
OwnAnswer(rec) ==
    IF rec.mresp.kind = "none" THEN StrRes(KEY_NOT_SET)
    ELSE gemini_response(variant, rec.mresp)

\* The payload of a finished request of ConcBodies, from the configuration,
\* the request's own body and the responses to its own calls.
OwnPayload(rec) ==
    LET blank == Strip(rec.body.query.s) = <<>>
        empty == \E name \in {"query", "ai_answer", "expected_answer"} :
                    rec.body[name].s = <<>>
    IN  IF rec.path = "search"
        THEN IF variant = "api" /\ blank THEN ErrorPayload(QUERY_REQUIRED)
             ELSE AnswerPayload(OwnAnswer(rec), web_search(rec.sresp),
                                IF variant = "api" THEN Strip(rec.body.query.s)
                                ELSE rec.body.query.s)
        ELSE IF variant = "api" /\ empty THEN ErrorPayload(MISSING_FIELDS)
             ELSE JsonPayload(score_parse(variant, OwnAnswer(rec).s))

\* A step changes the record of at most one request and never the
\* configuration.
OneRequestPerStep ==
    /\ variant' = variant
    /\ envKey' = envKey
    /\ \A r \in ConcReqs : \A r2 \in ConcReqs :
          r # r2 /\ req'[r] # req[r] => req'[r2] = req[r2]

\* C15: under every interleaving of two requests, the response to each is a
\* function of its own body, of the configuration and of the responses to
\* its own outbound calls, and no step of one request changes what another
\* request reads.
C15_NoSharedState ==
    /\ [](\A r \in ConcReqs :
            req[r].pc = "done" =>
                req[r].status = 200 /\ req[r].payload = OwnPayload(req[r]))
    /\ [][OneRequestPerStep]_vars

C15_Witness ==
    /\ req[1].pc = "done"
    /\ req[2].pc = "done"
    /\ req[1].path = "search"
    /\ req[2].path = "search"
    /\ req[1].body = req[2].body
    /\ req[1].payload.k = "answer"
    /\ req[2].payload.k = "answer"
    /\ req[1].payload.web_context = <<"X", "nl", "Y">>
    /\ req[2].payload.web_context = <<"Web search error: ", "connection refused">>
    /\ req[1].payload.ai_answer # req[2].payload.ai_answer
====
